---------------------------- MODULE Spec2Model ----------------------------
(***************************************************************************)
(* The threaded replay downloader of thread_scrape.py as a state machine:  *)
(* the main thread running download_ladder_replays, the user tasks of the  *)
(* outer ThreadPoolExecutor (_process_user_replays) and the replay tasks   *)
(* of each user's inner ThreadPoolExecutor (_download_replay), sharing one *)
(* file_lock and one output directory tree.  The remote service is the     *)
(* environment: each GET is answered by one of Outcomes, with a body drawn *)
(* from a small set.  A body that decodes has the shape the service        *)
(* documents (a toplist of userids, a list of games with an id).           *)
(***************************************************************************)
EXTENDS Naturals, Integers, Sequences, FiniteSets, TLC

\* ------------------------------------------------------------- bounds
\* Largest max_workers the downloader is constructed with.
MaxWorkers == 2
\* Number of threads racing in _safe_mkdir (specification SpecMkdir).
MkdirWorkers == 3
\* Longest log, in chunks, handed to the parser (specification SpecParse).
MaxChunks == 3

\* The bodies the service may return.  A ladder's toplist: empty, one
\* player, two players.  A user's replay list: empty, one game, two games;
\* the lists of two users may share a game (both played in it).
Toplists == {<<>>, <<"u1">>, <<"u1", "u2">>}
ReplayIds == {"r1", "r2"}
UserDicts == {<<>>, <<"r1">>, <<"r2">>, <<"r1", "r2">>}

\* A user task is named by its entry's position in the toplist, a replay
\* task by its user task and its game's position in that user's list.
Users == UNION {DOMAIN tl : tl \in Toplists}
Slots == UNION {DOMAIN ud : ud \in UserDicts}
Tasks == Users \X Slots

\* What a GET can come to: status 200 with a decodable body, a non-200
\* status, an exception raised by request(), a body response.json() rejects.
Outcomes == {"ok", "http_error", "raise", "decode_error"}
\* What open(output_path, 'w') followed by json.dump can come to.
WriteOutcomes == {"ok", "open_fail", "dump_fail"}

NoTask == <<0, 0>>

VARIABLES
    max_workers,   \* self.max_workers
    file_lock,     \* self.file_lock: NoTask when free, else the holder
    pc,            \* position of the main thread
    dirs,          \* directories that exist
    files,         \* content of each output path
    written_by,    \* output path -> replay tasks that opened it for writing
    ladder_resp,   \* outcome of the ladder GET ("none" before it returns)
    toplist,       \* ladder_dict['toplist'], as userids
    utask,         \* the future of each user task
    rtask,         \* the future of each replay task
    collected,     \* user futures as_completed has yielded to the main thread
    progress,      \* calls of bar()
    logged,        \* user -> count in "Downloaded n replays for user"
    reqs,          \* GETs issued: ladder, per user list, per replay task
    exit_code,     \* process exit status (-1 while running)
    mk,            \* threads racing in _safe_mkdir (SpecMkdir only)
    sq,            \* the sequential scraper of mass_scrape.py (SpecSeq only)
    ps             \* a log and its parsed record (SpecParse only)

vars == <<max_workers, file_lock, pc, dirs, files, written_by, ladder_resp,
          toplist, utask, rtask, collected, progress, logged, reqs,
          exit_code, mk, sq, ps>>

\* -------------------------------------------------------- file system
Parent(d) == IF d = "info/all" THEN {"info"} ELSE {}
\* The directory trees a run can start from.
InitialDirs == {{}, {"info"}, {"info", "info/all"}}

\* An existence test that always answers yes.
path_exists_always(d) == TRUE

\* os.path.exists(directory)
path_exists(d) == d \in dirs
\* os.makedirs(directory): creates the missing parents and the leaf; raises
\* FileExistsError when the leaf is already there.
makedirs_raises(d) == d \in dirs
makedirs(d) == dirs \cup Parent(d) \cup {d}

\* An output path that leaves the replay id out.
OutputPath_flat(id) == <<"info/all", "replay">>

\* f'info/all/{game["id"]}.json'
OutputPath(id) == <<"info/all", id>>
Paths == {OutputPath(id) : id \in ReplayIds}

\* ------------------------------------------------------------- tasks
NoUser == [pc |-> "none", resp |-> "none", user_dict |-> <<>>,
           replays |-> <<>>, seen |-> {}]
NoReplay == [pc |-> "none", id |-> "none", resp |-> "none",
             write |-> "none", ret |-> "unset"]

\* Threads of a pool that are running a task.
UserRunning == {i \in Users : utask[i].pc \in {"list_wait", "collecting"}}
ReplayRunning(i) ==
    {j \in Slots : rtask[<<i, j>>].pc \in {"get_wait", "lock_wait", "writing"}}
Submitted(i) == {j \in Slots : rtask[<<i, j>>].pc # "none"}

\* ------------------------------------------------------ _safe_mkdir
MkdirPositions == {"mkdir_info", "makedirs_info", "mkdir_all", "makedirs_all"}
\* The directory a position of the directory preamble works on, and the
\* position after it (last: where the caller goes after the second call).
MkdirTarget(p) ==
    IF p \in {"mkdir_info", "makedirs_info"} THEN "info" ELSE "info/all"
MkdirAfter(p, last) == IF MkdirTarget(p) = "info" THEN "mkdir_all" ELSE last

\* One step of _safe_mkdir by a thread at position p: the existence test
\* (positions mkdir_*), then os.makedirs (positions makedirs_*).  The value
\* is the thread's next position; "raised" is FileExistsError leaving the
\* call.
_safe_mkdir_pc(p, last) ==
    IF p \in {"mkdir_info", "mkdir_all"}
    THEN IF path_exists(MkdirTarget(p))
         THEN MkdirAfter(p, last)
         ELSE IF p = "mkdir_info" THEN "makedirs_info" ELSE "makedirs_all"
    ELSE IF makedirs_raises(MkdirTarget(p))
         THEN "raised"
         ELSE MkdirAfter(p, last)

\* The directory tree after that step.
_safe_mkdir_dirs(p) ==
    IF p \in {"makedirs_info", "makedirs_all"} /\ ~makedirs_raises(MkdirTarget(p))
    THEN makedirs(MkdirTarget(p))
    ELSE dirs

\* --------------------------------------------- download_ladder_replays
\* Lines 150-151 on the main thread; an exception is caught at line 180.
MainMkdir ==
    /\ pc \in MkdirPositions
    /\ pc' = LET p == _safe_mkdir_pc(pc, "ladder_get")
             IN  IF p = "raised" THEN "returned" ELSE p
    /\ dirs' = _safe_mkdir_dirs(pc)
    /\ UNCHANGED <<max_workers, file_lock, files, written_by, ladder_resp,
                   toplist, utask, rtask, collected, progress, logged, reqs,
                   exit_code, mk, sq, ps>>

\* Line 155: the ladder GET is issued.
LadderGet ==
    /\ pc = "ladder_get"
    /\ pc' = "ladder_wait"
    /\ reqs' = [reqs EXCEPT !.ladder = @ + 1]
    /\ UNCHANGED <<max_workers, file_lock, dirs, files, written_by,
                   ladder_resp, toplist, utask, rtask, collected, progress,
                   logged, exit_code, mk, sq, ps>>

\* A ladder check that logs a non-200 status and goes on.
LadderFailed_no_return(o) == o \in {"raise", "decode_error"}

\* Line 157 (and the except of line 180 for a raise or an undecodable body):
\* whether the run stops after the ladder GET.
LadderFailed(o) == o # "ok"

\* Lines 155-169: the ladder GET returns outcome o with toplist tl.  On failure the error is logged and the method returns; else one
\* user task per entry is submitted to the outer pool.
LadderResponse(o, tl) ==
    /\ pc = "ladder_wait"
    /\ ladder_resp' = o
    /\ IF LadderFailed(o)
       THEN /\ pc' = "returned"
            /\ UNCHANGED <<toplist, utask>>
       ELSE /\ pc' = "as_completed"
            /\ toplist' = tl
            /\ utask' = [i \in Users |->
                           IF i <= Len(tl) THEN [NoUser EXCEPT !.pc = "pending"]
                           ELSE utask[i]]
    /\ UNCHANGED <<max_workers, file_lock, dirs, files, written_by, rtask,
                   collected, progress, logged, reqs, exit_code, mk, sq, ps>>

\* A loop that never advances the bar.
bar_missing(p) == p

\* Line 178: bar().
bar(p) == p + 1

\* Lines 171-178: as_completed yields the finished user future i; its count
\* is logged (or its exception, line 177) and the bar advances.
LadderCollect(i) ==
    /\ pc = "as_completed"
    /\ i \in 1..Len(toplist)
    /\ i \notin collected
    /\ utask[i].pc \in {"done", "raised"}
    /\ collected' = collected \cup {i}
    /\ logged' = IF utask[i].pc = "done"
                 THEN [logged EXCEPT ![i] = Len(utask[i].replays)]
                 ELSE logged
    /\ progress' = bar(progress)
    /\ UNCHANGED <<max_workers, file_lock, pc, dirs, files, written_by,
                   ladder_resp, toplist, utask, rtask, reqs, exit_code, mk, sq, ps>>

\* A loop left after the first user future.
AllUsersCollected_first == collected # {} \/ toplist = <<>>

\* as_completed is exhausted once every submitted user future was yielded.
AllUsersCollected == collected = 1..Len(toplist)

\* Lines 164-178 end: both with blocks exit and the method returns.
LadderReturn ==
    /\ pc = "as_completed"
    /\ AllUsersCollected
    /\ pc' = "returned"
    /\ UNCHANGED <<max_workers, file_lock, dirs, files, written_by,
                   ladder_resp, toplist, utask, rtask, collected, progress,
                   logged, reqs, exit_code, mk, sq, ps>>

\* Lines 183-186: download_ladder_replays returned None; the script ends and
\* the interpreter exits with status 0.
MainExit ==
    /\ pc = "returned"
    /\ pc' = "exited"
    /\ exit_code' = 0
    /\ UNCHANGED <<max_workers, file_lock, dirs, files, written_by,
                   ladder_resp, toplist, utask, rtask, collected, progress,
                   logged, reqs, mk, sq, ps>>


\* A pool that starts a thread for every submitted task.
pool_has_idle_worker_always(running) == TRUE

\* Lines 121 and 165: ThreadPoolExecutor(max_workers=self.max_workers)
\* starts a pending task only while fewer than max_workers are running.
pool_has_idle_worker(running) == Cardinality(running) < max_workers

\* ----------------------------------------------- _process_user_replays
\* Lines 111-112: a worker of the outer pool takes user task i and issues
\* the replay-list GET.  The pool runs at most max_workers tasks at once.
_process_user_replays_get(i) ==
    /\ utask[i].pc = "pending"
    /\ pool_has_idle_worker(UserRunning)
    /\ utask' = [utask EXCEPT ![i].pc = "list_wait"]
    /\ reqs' = [reqs EXCEPT !.list[i] = @ + 1]
    /\ UNCHANGED <<max_workers, file_lock, pc, dirs, files, written_by,
                   ladder_resp, toplist, rtask, collected, progress, logged,
                   exit_code, mk, sq, ps>>

\* A list failure that escapes the task as an exception.
UserFailurePc_raises == "raised"

\* Lines 114-116 and 142-144: how the task ends when the list GET failed:
\* the error is logged and [] is returned, nothing is raised.
UserFailurePc == "done"

\* Lines 112-129: the list GET returns outcome o with body ud.  On failure
\* the task returns []; else one replay task per game is submitted to a new
\* inner pool.
_process_user_replays_response(i, o, ud) ==
    /\ utask[i].pc = "list_wait"
    /\ IF o # "ok"
       THEN /\ utask' = [utask EXCEPT ![i].pc = UserFailurePc, ![i].resp = o]
            /\ UNCHANGED rtask
       ELSE /\ utask' = [utask EXCEPT ![i].pc = "collecting", ![i].resp = o,
                                      ![i].user_dict = ud]
            /\ rtask' = [t \in Tasks |->
                           IF t[1] = i /\ t[2] <= Len(ud)
                           THEN [NoReplay EXCEPT !.pc = "pending",
                                                 !.id = ud[t[2]]]
                           ELSE rtask[t]]
    /\ UNCHANGED <<max_workers, file_lock, pc, dirs, files, written_by,
                   ladder_resp, toplist, collected, progress, logged, reqs,
                   exit_code, mk, sq, ps>>

\* An append without the None test.
KeepResult_always(r) == TRUE

\* Line 135: whether a finished replay task's result is appended.
KeepResult(r) == r # "None"

\* Lines 131-138: as_completed yields the finished replay future j of user
\* i; a record is appended to replays, None is dropped.
_process_user_replays_collect(i, j) ==
    /\ utask[i].pc = "collecting"
    /\ j \in Submitted(i) \ utask[i].seen
    /\ rtask[<<i, j>>].pc = "done"
    /\ utask' = [utask EXCEPT
                   ![i].seen = @ \cup {j},
                   ![i].replays = IF KeepResult(rtask[<<i, j>>].ret)
                                  THEN Append(@, j) ELSE @]
    /\ UNCHANGED <<max_workers, file_lock, pc, dirs, files, written_by,
                   ladder_resp, toplist, rtask, collected, progress, logged,
                   reqs, exit_code, mk, sq, ps>>

\* A loop that gives up the batch at the first failed replay.
AllReplaysCollected_abort(i) ==
    \/ utask[i].seen = Submitted(i)
    \/ \E j \in utask[i].seen : rtask[<<i, j>>].ret = "None"

\* as_completed of the inner pool is exhausted.
AllReplaysCollected(i) == utask[i].seen = Submitted(i)

\* Lines 121, 140: the inner pool is shut down and replays is returned.
_process_user_replays_return(i) ==
    /\ utask[i].pc = "collecting"
    /\ AllReplaysCollected(i)
    /\ utask' = [utask EXCEPT ![i].pc = "done"]
    /\ UNCHANGED <<max_workers, file_lock, pc, dirs, files, written_by,
                   ladder_resp, toplist, rtask, collected, progress, logged,
                   reqs, exit_code, mk, sq, ps>>

\* ----------------------------------------------------- _download_replay
\* Line 90: a worker of user t[1]'s inner pool takes replay task t and
\* issues the replay GET.
_download_replay_get(t) ==
    /\ rtask[t].pc = "pending"
    /\ pool_has_idle_worker(ReplayRunning(t[1]))
    /\ rtask' = [rtask EXCEPT ![t].pc = "get_wait"]
    /\ reqs' = [reqs EXCEPT !.replay[t] = @ + 1]
    /\ UNCHANGED <<max_workers, file_lock, pc, dirs, files, written_by,
                   ladder_resp, toplist, utask, collected, progress, logged,
                   exit_code, mk, sq, ps>>

\* A failed fetch that is put back in the queue.
_download_replay_after_retry(o) == IF o = "ok" THEN "lock_wait" ELSE "pending"

\* Lines 91-93 and 104-106: a failed fetch ends the task (no retry); a
\* fetched and parsed record goes on to the write.
_download_replay_after(o) == IF o = "ok" THEN "lock_wait" ELSE "done"

\* Lines 90-96 and 104-106: the replay GET returns outcome o.  On failure
\* the error is logged and None returned; else the record is parsed and the
\* thread goes for the file lock.
_download_replay_response(t, o) ==
    /\ rtask[t].pc = "get_wait"
    /\ rtask' = [rtask EXCEPT
                   ![t].resp = o,
                   ![t].pc = _download_replay_after(o),
                   ![t].ret = IF o = "ok" THEN @ ELSE "None"]
    /\ UNCHANGED <<max_workers, file_lock, pc, dirs, files, written_by,
                   ladder_resp, toplist, utask, collected, progress, logged,
                   reqs, exit_code, mk, sq, ps>>

\* A lock that never blocks.
LockFree_always == TRUE

\* Line 98: with self.file_lock, entered when the lock is free.
LockFree == file_lock = NoTask

_download_replay_lock(t) ==
    /\ rtask[t].pc = "lock_wait"
    /\ LockFree
    /\ file_lock' = t
    /\ rtask' = [rtask EXCEPT ![t].pc = "writing"]
    /\ UNCHANGED <<max_workers, pc, dirs, files, written_by, ladder_resp,
                   toplist, utask, collected, progress, logged, reqs,
                   exit_code, mk, sq, ps>>

\* Lines 102 and 104-106: what the call returns after the write came to w.
_download_replay_ret(w) == IF w = "ok" THEN "record" ELSE "None"

\* Line 99: open(output_path, 'w') creates or truncates the file unless it
\* fails; line 100: json.dump fills it unless it fails.
FileAfter(old, w) ==
    IF w = "ok" THEN "complete" ELSE IF w = "dump_fail" THEN "partial" ELSE old

\* A lock released by hand after the dump only: an exception skips it.
file_lock_exit_leak(w) == IF w = "ok" THEN NoTask ELSE file_lock

\* Line 98: the with block of self.file_lock exits, normally or by the
\* exception of a failed write; either way the lock is released.
file_lock_exit(w) == NoTask

\* A worker that appends its record to its user's replays list itself.
_download_replay_write_appends(t, w) ==
    /\ rtask[t].pc = "writing"
    /\ LET path == OutputPath(rtask[t].id)
       IN  /\ files' = [files EXCEPT ![path] = FileAfter(@, w)]
           /\ written_by' = IF w = "open_fail" THEN written_by
                            ELSE [written_by EXCEPT ![path] = @ \cup {t}]
    /\ file_lock' = file_lock_exit(w)
    /\ rtask' = [rtask EXCEPT ![t].pc = "done", ![t].write = w,
                              ![t].ret = _download_replay_ret(w)]
    /\ utask' = [utask EXCEPT ![t[1]].replays =
                   IF w = "ok" THEN Append(@, t[2]) ELSE @]
    /\ UNCHANGED <<max_workers, pc, dirs, ladder_resp, toplist,
                   collected, progress, logged, reqs, exit_code, mk, sq, ps>>

\* Lines 98-106: inside the lock the output file is opened and dumped, with
\* outcome w; both with blocks exit (the lock is released on every path) and
\* the record, or None after an exception, is returned.
_download_replay_write(t, w) ==
    /\ rtask[t].pc = "writing"
    /\ LET path == OutputPath(rtask[t].id)
       IN  /\ files' = [files EXCEPT ![path] = FileAfter(@, w)]
           /\ written_by' = IF w = "open_fail" THEN written_by
                            ELSE [written_by EXCEPT ![path] = @ \cup {t}]
    /\ file_lock' = file_lock_exit(w)
    /\ rtask' = [rtask EXCEPT ![t].pc = "done", ![t].write = w,
                              ![t].ret = _download_replay_ret(w)]
    /\ UNCHANGED <<max_workers, pc, dirs, ladder_resp, toplist, utask,
                   collected, progress, logged, reqs, exit_code, mk, sq, ps>>

\* ------------------------------------------------------ specification
\* The state after ReplayDownloader(max_workers) is constructed, on any of
\* the directory trees a run can start from.
Init ==
    /\ max_workers \in 1..MaxWorkers
    /\ file_lock = NoTask
    /\ pc = "mkdir_info"
    /\ dirs \in InitialDirs
    /\ files = [p \in Paths |-> "absent"]
    /\ written_by = [p \in Paths |-> {}]
    /\ ladder_resp = "none"
    /\ toplist = <<>>
    /\ utask = [i \in Users |-> NoUser]
    /\ rtask = [t \in Tasks |-> NoReplay]
    /\ collected = {}
    /\ progress = 0
    /\ logged = [i \in Users |-> -1]
    /\ reqs = [ladder |-> 0, list |-> [i \in Users |-> 0],
               replay |-> [t \in Tasks |-> 0]]
    /\ exit_code = -1
    /\ mk = <<>>
    /\ sq = <<>>
    /\ ps = <<>>

Next ==
    \/ MainMkdir
    \/ LadderGet
    \/ \E o \in Outcomes, tl \in Toplists : LadderResponse(o, tl)
    \/ \E i \in Users : LadderCollect(i)
    \/ LadderReturn
    \/ MainExit
    \/ \E i \in Users : _process_user_replays_get(i)
    \/ \E i \in Users, o \in Outcomes, ud \in UserDicts :
          _process_user_replays_response(i, o, ud)
    \/ \E i \in Users, j \in Slots : _process_user_replays_collect(i, j)
    \/ \E i \in Users : _process_user_replays_return(i)
    \/ \E t \in Tasks : _download_replay_get(t)
    \/ \E t \in Tasks, o \in Outcomes : _download_replay_response(t, o)
    \/ \E t \in Tasks : _download_replay_lock(t)
    \/ \E t \in Tasks, w \in WriteOutcomes : _download_replay_write(t, w)

Spec == Init /\ [][Next]_vars

\* Every network request eventually returns and runnable threads are
\* eventually scheduled: while some step is possible, some step is taken.
FairSpec == Spec /\ WF_vars(Next)

\* N threads each run the directory preamble of download_ladder_replays,
\* _safe_mkdir('info') then _safe_mkdir('info/all'), on one directory tree.
MkdirThreads == 1..MkdirWorkers

MkdirStep(w) ==
    /\ mk[w] \in MkdirPositions
    /\ mk' = [mk EXCEPT ![w] = _safe_mkdir_pc(mk[w], "done")]
    /\ dirs' = _safe_mkdir_dirs(mk[w])
    /\ UNCHANGED <<max_workers, file_lock, pc, files, written_by,
                   ladder_resp, toplist, utask, rtask, collected, progress,
                   logged, reqs, exit_code, sq, ps>>

InitMkdir ==
    /\ max_workers \in 1..MaxWorkers
    /\ file_lock = NoTask
    /\ pc = "mkdir_info"
    /\ dirs \in InitialDirs
    /\ files = [p \in Paths |-> "absent"]
    /\ written_by = [p \in Paths |-> {}]
    /\ ladder_resp = "none"
    /\ toplist = <<>>
    /\ utask = [i \in Users |-> NoUser]
    /\ rtask = [t \in Tasks |-> NoReplay]
    /\ collected = {}
    /\ progress = 0
    /\ logged = [i \in Users |-> -1]
    /\ reqs = [ladder |-> 0, list |-> [i \in Users |-> 0],
               replay |-> [t \in Tasks |-> 0]]
    /\ exit_code = -1
    /\ mk = [w \in MkdirThreads |-> "mkdir_info"]
    /\ sq = <<>>
    /\ ps = <<>>

NextMkdir == \E w \in MkdirThreads : MkdirStep(w)

SpecMkdir == InitMkdir /\ [][NextMkdir]_vars

\* ------------------------------------------------- _parse_replay_data
\* A log is a sequence of tokens, each a piece of text: the pipe, words
\* (runs of \w characters; "7" and "8" are digits), white space, and other
\* punctuation.  The character classes of the patterns, as token sets:
Word == {"poke", "gen", "tier", "win", "p1", "p2", "p3", "A", "B", "7", "8"}
Digit == {"7", "8"}
Space == {" ", "\n"}
GenClass == Digit                                \* (\d+)
TierClass == Word \cup Space \cup {"[", "]"}     \* ([\w\s\[\]]+)
WinClass == Word \cup Space \cup {"*"}           \* ([\w\s\*]+)
PokeClass == Word \cup Space \cup {",", "-", "*"} \* ([\w\s,\-*]+)

NoMatch == [end |-> 0]

\* The index after the longest run of tokens of class c that starts at k.
RECURSIVE RunEnd(_, _, _)
RunEnd(log, k, c) ==
    IF k <= Len(log) /\ log[k] \in c THEN RunEnd(log, k + 1, c) ELSE k

\* Whether the literal \|key\| stands at k.
Literal(log, k, key) ==
    k + 2 <= Len(log) /\ SubSeq(log, k, k + 2) = <<"|", key, "|">>

\* The match of \|key\|(c+) at k: the group is the longest run of c, which
\* must not be empty.
match_scalar(log, k, key, c) ==
    LET e == RunEnd(log, k + 3, c)
    IN  IF Literal(log, k, key) /\ e > k + 3
        THEN [end |-> e, group |-> SubSeq(log, k + 3, e - 1)]
        ELSE NoMatch

\* A search that keeps the last match.
RECURSIVE re_search_last(_, _, _, _)
re_search_last(log, k, key, c) ==
    IF k > Len(log) THEN NoMatch
    ELSE LET later == re_search_last(log, k + 1, key, c)
         IN  IF later # NoMatch THEN later ELSE match_scalar(log, k, key, c)

\* re.search(pattern, log_content) from position k: the scan goes left to
\* right and stops at the first position where the pattern matches.
RECURSIVE re_search(_, _, _, _)
re_search(log, k, key, c) ==
    IF k > Len(log) THEN NoMatch
    ELSE IF match_scalar(log, k, key, c) # NoMatch
         THEN match_scalar(log, k, key, c)
         ELSE re_search(log, k + 1, key, c)

\* str.strip(): leading and trailing white space removed.
RECURSIVE strip(_)
strip(t) ==
    IF t = <<>> THEN t
    ELSE IF Head(t) \in Space THEN strip(Tail(t))
    ELSE IF t[Len(t)] \in Space THEN strip(SubSeq(t, 1, Len(t) - 1))
    ELSE t

\* int(): the number a run of digits writes.
DigitValue(d) == IF d = "7" THEN 7 ELSE 8
RECURSIVE int(_)
int(t) ==
    IF t = <<>> THEN 0
    ELSE 10 * int(SubSeq(t, 1, Len(t) - 1)) + DigitValue(t[Len(t)])

\* Lines 56-59: a scalar field is the first match's group, as an integer
\* for gen and stripped otherwise; None without a match.
parse_gen(log) ==
    LET m == re_search(log, 1, "gen", GenClass)
    IN  IF m = NoMatch THEN "None" ELSE int(m.group)
parse_tier(log) ==
    LET m == re_search(log, 1, "tier", TierClass)
    IN  IF m = NoMatch THEN "None" ELSE strip(m.group)
parse_winner(log) ==
    LET m == re_search(log, 1, "win", WinClass)
    IN  IF m = NoMatch THEN "None" ELSE strip(m.group)

\* The match of \|poke\|(\w+)\|([\w\s,\-*]+) at k: the player is the whole
\* run of word tokens, which a pipe must follow; the pokemon is the longest
\* run of the class after it.
match_poke(log, k) ==
    LET e1 == RunEnd(log, k + 3, Word)
        e2 == RunEnd(log, e1 + 1, PokeClass)
    IN  IF /\ Literal(log, k, "poke")
           /\ e1 > k + 3
           /\ e1 <= Len(log) /\ log[e1] = "|"
           /\ e2 > e1 + 1
        THEN [end |-> e2, player |-> SubSeq(log, k + 3, e1 - 1),
              pokemon |-> SubSeq(log, e1 + 1, e2 - 1)]
        ELSE NoMatch

\* re.finditer(poke_pattern, log_content) from position k: the matches from
\* left to right, each search resuming where the last match ended.
RECURSIVE re_finditer(_, _)
re_finditer(log, k) ==
    IF k > Len(log) THEN <<>>
    ELSE IF match_poke(log, k) # NoMatch
         THEN <<match_poke(log, k)>> \o re_finditer(log, match_poke(log, k).end)
         ELSE re_finditer(log, k + 1)

\* A roster that gets a key for whatever player token the log has.
poke_append_any(poke, player, pokemon) ==
    IF player \in DOMAIN poke
    THEN [poke EXCEPT ![player] = Append(@, pokemon)]
    ELSE [p \in DOMAIN poke \cup {player} |->
             IF p = player THEN <<pokemon>> ELSE poke[p]]

\* Lines 65-66: the pokemon is appended to its player's list when the
\* player is p1 or p2.
poke_append(poke, player, pokemon) ==
    IF player \in {<<"p1">>, <<"p2">>}
    THEN [poke EXCEPT ![player] = Append(@, pokemon)]
    ELSE poke

\* Lines 63-66: the loop over the matches.
RECURSIVE poke_loop(_, _)
poke_loop(matches, poke) ==
    IF matches = <<>> THEN poke
    ELSE poke_loop(Tail(matches),
                   poke_append(poke, Head(matches).player,
                               strip(Head(matches).pokemon)))

\* Lines 42-66 of _parse_replay_data, for the fields read from the log.
_parse_replay_data(log) ==
    [gen |-> parse_gen(log),
     tier |-> parse_tier(log),
     winner |-> parse_winner(log),
     poke |-> poke_loop(re_finditer(log, 1),
                        [p \in {<<"p1">>, <<"p2">>} |-> <<>>]),
     full_log |-> log]

\* The pieces logs are made of: poke lines for p1, p2 and another slot, a
\* line with two poke events, a cut-off poke prefix (it makes the next poke
\* line its player field), gen lines with different numbers and with no
\* number, tier and win lines, one of them with a character outside the
\* class.
Chunks ==
    { <<"|", "poke", "|", "p1", "|", "A", "\n">>,
      <<"|", "poke", "|", "p2", "|", "A", ",", " ", "B", "|", "\n">>,
      <<"|", "poke", "|", "p3", "|", "B", "\n", "|", "poke", "|", "p1", "|", "B", "\n">>,
      <<"|", "poke">>,
      <<"|", "gen", "|", "7", "\n">>,
      <<"|", "gen", "|", "8", "7", "\n">>,
      <<"|", "gen", "|", "A", "\n">>,
      <<"|", "tier", "|", "[", "A", " ", "8", "]", " ", "B", "\n">>,
      <<"|", "tier", "|", "B", ".", "A", "\n">>,
      <<"|", "win", "|", "A", "\n">>,
      <<"|", "win", "|", " ", "B", "*", "\n">> }

RECURSIVE Flatten(_)
Flatten(cs) == IF cs = <<>> THEN <<>> ELSE Head(cs) \o Flatten(Tail(cs))

Logs == {Flatten(cs) : cs \in UNION {[1..n -> Chunks] : n \in 0..MaxChunks}}

\* The threaded downloader, constructed and not started.
DownloaderIdle ==
    /\ max_workers \in 1..MaxWorkers
    /\ file_lock = NoTask
    /\ pc = "mkdir_info"
    /\ dirs = {}
    /\ files = [p \in Paths |-> "absent"]
    /\ written_by = [p \in Paths |-> {}]
    /\ ladder_resp = "none"
    /\ toplist = <<>>
    /\ utask = [i \in Users |-> NoUser]
    /\ rtask = [t \in Tasks |-> NoReplay]
    /\ collected = {}
    /\ progress = 0
    /\ logged = [i \in Users |-> -1]
    /\ reqs = [ladder |-> 0, list |-> [i \in Users |-> 0],
               replay |-> [t \in Tasks |-> 0]]
    /\ exit_code = -1
    /\ mk = <<>>

\* _parse_replay_data is applied to a log.
ParseStep ==
    /\ ps.pc = "start"
    /\ ps' = [ps EXCEPT !.pc = "parsed",
                        !.parsed = _parse_replay_data(ps.log)]
    /\ UNCHANGED <<max_workers, file_lock, pc, dirs, files, written_by,
                   ladder_resp, toplist, utask, rtask, collected, progress,
                   logged, reqs, exit_code, mk, sq>>

InitParse ==
    /\ DownloaderIdle
    /\ sq = <<>>
    /\ ps \in {[pc |-> "start", log |-> l, parsed |-> "unset"] : l \in Logs}

SpecParse == InitParse /\ [][ParseStep]_vars

\* ------------------------------------------------------ mass_scrape.py
\* The sequential script: sq.pc is the position of its only thread, sq.i
\* and sq.j the ladder entry and the game the loops are at, sq.ladder_dict
\* and sq.user_dict the module-level names ("unbound" until first assigned),
\* sq.iters what each iteration of the ladder loop did, sq.crash the
\* exception that ended the script ("none" when none did).
SeqStart ==
    [pc |-> "ladder", ladder_dict |-> "unbound", user_dict |-> "unbound",
     ladder_file |-> "absent", i |-> 1, j |-> 1, iters |-> <<>>, bar |-> 0,
     crash |-> "none"]

Crash(q, exc) == [q EXCEPT !.pc = "crashed", !.crash = exc]

\* Lines 123-125: safemkdir on the directory tree ds.
safemkdir(ds, d) == IF d \in ds THEN ds ELSE ds \cup Parent(d) \cup {d}

\* Lines 109-118: the ladder GET returns outcome o with toplist tl.  A 200
\* binds ladder_dict and writes it to gen8ou.json with outcome w; a non-200
\* only prints; a raise, an undecodable body or a failed write ends the
\* script.
SeqLadder(o, tl, w) ==
    /\ sq.pc = "ladder"
    /\ sq' = IF o = "ok"
             THEN LET q == [sq EXCEPT !.ladder_dict = tl,
                                      !.ladder_file = FileAfter(@, w)]
                  IN  IF w = "ok" THEN [q EXCEPT !.pc = "mkdir"]
                      ELSE Crash(q, "OSError")
             ELSE IF o = "http_error" THEN [sq EXCEPT !.pc = "mkdir"]
             ELSE Crash(sq, IF o = "raise" THEN "ConnectionError"
                                           ELSE "JSONDecodeError")
    /\ UNCHANGED <<max_workers, file_lock, pc, dirs, files, written_by,
                   ladder_resp, toplist, utask, rtask, collected, progress,
                   logged, reqs, exit_code, mk, ps>>

\* After the last statement of an iteration (or before the first): the loop
\* of line 131 goes to entry n, or the script ends.
SeqNext(q, n) ==
    IF n <= Len(q.ladder_dict)
    THEN [q EXCEPT !.pc = "user_get", !.i = n]
    ELSE [q EXCEPT !.pc = "exited", !.i = n]

\* Lines 127-131: both directories are made; len(ladder_dict['toplist'])
\* raises NameError when ladder_dict was never bound; else the loop starts.
SeqMkdir ==
    /\ sq.pc = "mkdir"
    /\ dirs' = safemkdir(safemkdir(dirs, "info"), "info/all")
    /\ sq' = IF sq.ladder_dict = "unbound" THEN Crash(sq, "NameError")
             ELSE SeqNext(sq, 1)
    /\ UNCHANGED <<max_workers, file_lock, pc, files, written_by,
                   ladder_resp, toplist, utask, rtask, collected, progress,
                   logged, reqs, exit_code, mk, ps>>

\* Lines 134-140: the list GET for entry sq.i returns outcome o with body
\* ud.  A 200 rebinds user_dict; a non-200 only prints and leaves user_dict
\* as it was.
SeqUserResponse(o, ud) ==
    /\ sq.pc = "user_get"
    /\ LET q == [sq EXCEPT !.iters = Append(@, [resp |-> o, fetched |-> <<>>,
                                               written |-> <<>>])]
       IN  sq' = IF o = "ok" THEN [q EXCEPT !.pc = "games", !.user_dict = ud]
                 ELSE IF o = "http_error" THEN [q EXCEPT !.pc = "games"]
                 ELSE Crash(q, IF o = "raise" THEN "ConnectionError"
                                              ELSE "JSONDecodeError")
    /\ UNCHANGED <<max_workers, file_lock, pc, dirs, files, written_by,
                   ladder_resp, toplist, utask, rtask, collected, progress,
                   logged, reqs, exit_code, mk, ps>>

\* Lines 144 and 155: the loop over user_dict advances to game n, or ends,
\* bar() is called and the ladder loop goes on.
SeqGame(q, n) ==
    IF n <= Len(q.user_dict)
    THEN [q EXCEPT !.pc = "replay_get", !.j = n]
    ELSE SeqNext([q EXCEPT !.bar = @ + 1], q.i + 1)

\* Line 144: for game in user_dict starts; NameError when user_dict was
\* never bound.
SeqGames ==
    /\ sq.pc = "games"
    /\ sq' = IF sq.user_dict = "unbound" THEN Crash(sq, "NameError")
             ELSE SeqGame(sq, 1)
    /\ UNCHANGED <<max_workers, file_lock, pc, dirs, files, written_by,
                   ladder_resp, toplist, utask, rtask, collected, progress,
                   logged, reqs, exit_code, mk, ps>>

\* Lines 145 and 8-101 (get_replay, the same in download_json.py): the
\* replay GET for game sq.j returns outcome o.  A 200 binds data_dict; a
\* non-200 only prints, and data_dict.get at line 36 raises
\* UnboundLocalError.  The parsed record is written with outcome w, outside
\* any try.  No exception is caught: each ends the script.
SeqGetReplay(o, w) ==
    /\ sq.pc = "replay_get"
    /\ LET id == sq.user_dict[sq.j]
           path == OutputPath(id)
           opened == o = "ok" /\ w # "open_fail"
           q == [sq EXCEPT
                   !.iters[sq.i].fetched = Append(@, [id |-> id, resp |-> o]),
                   !.iters[sq.i].written = IF opened THEN Append(@, id) ELSE @]
       IN  /\ files' = IF o = "ok" THEN [files EXCEPT ![path] = FileAfter(@, w)]
                       ELSE files
           /\ sq' = IF o = "ok" /\ w = "ok" THEN SeqGame(q, sq.j + 1)
                    ELSE IF o = "ok" THEN Crash(q, "OSError")
                    ELSE IF o = "http_error" THEN Crash(q, "UnboundLocalError")
                    ELSE IF o = "raise" THEN Crash(q, "ConnectionError")
                    ELSE Crash(q, "JSONDecodeError")
    /\ UNCHANGED <<max_workers, file_lock, pc, dirs, written_by,
                   ladder_resp, toplist, utask, rtask, collected, progress,
                   logged, reqs, exit_code, mk, ps>>

InitSeq ==
    /\ DownloaderIdle
    /\ sq = SeqStart
    /\ ps = <<>>

NextSeq ==
    \/ \E o \in Outcomes, tl \in Toplists, w \in WriteOutcomes :
          SeqLadder(o, tl, w)
    \/ SeqMkdir
    \/ \E o \in Outcomes, ud \in UserDicts : SeqUserResponse(o, ud)
    \/ SeqGames
    \/ \E o \in Outcomes, w \in WriteOutcomes : SeqGetReplay(o, w)

SpecSeq == InitSeq /\ [][NextSeq]_vars

\* ============================================================ claims
Failed(o) == o \in {"http_error", "raise", "decode_error"}
Returned == pc \in {"returned", "exited"}
\* The replay tasks user task i submitted, and those that wrote a file.
TasksOf(i) == {t \in Tasks : t[1] = i /\ rtask[t].pc # "none"}
Writers == UNION {written_by[p] : p \in Paths}
Wrote(t) == t \in written_by[OutputPath(rtask[t].id)]
\* The replay tasks of user i whose record is in the returned list.
Returns(i) == {<<i, utask[i].replays[k]>> : k \in 1..Len(utask[i].replays)}

\* C1 as stated: when _process_user_replays has returned, every replay task
\* of the user whose GET returned 200 with a decodable body has written its
\* output file and its record is in the returned list.
C1_FetchIsolationAsStated ==
    \A i \in Users : utask[i].pc = "done" =>
        \A t \in TasksOf(i) : rtask[t].resp = "ok" =>
            Wrote(t) /\ rtask[t].write = "ok" /\ t \in Returns(i)

\* C1 amended: when _process_user_replays has returned, every replay task
\* it submitted was fetched once and ran to completion, whatever its siblings'
\* outcomes; each task whose GET returned 200 with a decodable body went on
\* to its write, and if that write did not fail it wrote its output file and
\* its record is in the returned list.
C1_FetchIsolation ==
    \A i \in Users : utask[i].pc = "done" /\ utask[i].resp = "ok" =>
        /\ TasksOf(i) = {i} \X (1..Len(utask[i].user_dict))
        /\ \A t \in TasksOf(i) :
              /\ rtask[t].pc = "done"
              /\ reqs.replay[t] = 1
              /\ rtask[t].resp = "ok" => rtask[t].write # "none"
              /\ rtask[t].resp = "ok" /\ rtask[t].write = "ok" =>
                    Wrote(t) /\ t \in Returns(i)

\* A user whose batch has a replay that returned non-200 and a sibling that
\* was written and returned.
C1_Witness ==
    \E i \in Users : \E t, u \in TasksOf(i) :
        /\ utask[i].pc = "done"
        /\ rtask[t].resp = "http_error"
        /\ rtask[u].write = "ok" /\ Wrote(u) /\ u \in Returns(i)

\* C2: after a non-200 ladder response no replay-list GET and no replay GET
\* is issued, no user or replay task is submitted and no file is written.
C2_FatalLadderNoWork ==
    ladder_resp = "http_error" =>
        /\ \A i \in Users : reqs.list[i] = 0 /\ utask[i].pc = "none"
        /\ \A t \in Tasks : reqs.replay[t] = 0 /\ rtask[t].pc = "none"
        /\ Writers = {}
        /\ \A p \in Paths : files[p] = "absent"

\* The run has ended after a non-200 ladder response.
C2_Witness == pc = "exited" /\ ladder_resp = "http_error" /\ reqs.ladder = 1

\* C3: a run whose ladder GET returned non-200 ends with a non-zero outcome.
C3_NonZeroOutcome ==
    pc = "exited" /\ ladder_resp = "http_error" => exit_code # 0

\* C4: no thread's _safe_mkdir raises, under any interleaving of the
\* existence tests and the creations.
C4_NoMkdirRaises == \A w \in DOMAIN mk : mk[w] # "raised"

\* C5: a _download_replay call that returned a record wrote its output file
\* once; a call that returned None did not create, truncate or modify it.
C5_WriteCount ==
    \A t \in Tasks : rtask[t].pc = "done" =>
        /\ rtask[t].ret = "record" => Wrote(t)
        /\ rtask[t].ret = "None" => ~Wrote(t)

\* C6 as stated: no output path is written by more than one worker task.
C6_DistinctTargetsAsStated ==
    \A p \in Paths : Cardinality(written_by[p]) <= 1

\* C6 amended: two worker tasks write the same output path only if they were
\* submitted for the same replay id (a game listed under several users);
\* tasks for different replay ids never share a path.
C6_DistinctTargets ==
    \A p \in Paths : \A t, u \in written_by[p] : rtask[t].id = rtask[u].id

\* Two users' tasks have written the same path, and both paths are written.
C6_Witness ==
    /\ \E p \in Paths : \E t, u \in written_by[p] : t[1] # u[1]
    /\ \A p \in Paths : written_by[p] # {}

\* C7: a user task whose list GET returned non-200 or raised has returned
\* the empty list without raising, submitted no replay task, issued no
\* replay GET and written no file; and when the run has returned every other
\* user task has completed, its replays fetched and, unless their own fetch
\* or write failed, written and returned.
C7_UserIsolation ==
    \A i \in Users : utask[i].resp \in {"http_error", "raise"} =>
        /\ utask[i].pc = "done"
        /\ utask[i].replays = <<>>
        /\ TasksOf(i) = {}
        /\ \A t \in Tasks : t[1] = i => reqs.replay[t] = 0 /\ t \notin Writers
        /\ Returned =>
              \A k \in (1..Len(toplist)) \ {i} :
                  /\ utask[k].pc = "done"
                  /\ utask[k].resp = "ok" =>
                        /\ TasksOf(k) = {k} \X (1..Len(utask[k].user_dict))
                        /\ \A t \in TasksOf(k) :
                              /\ rtask[t].pc = "done" /\ reqs.replay[t] = 1
                              /\ rtask[t].write = "ok" =>
                                    Wrote(t) /\ t \in Returns(k)

\* The run has returned with one user skipped and another user's replay
\* written.
C7_Witness ==
    /\ Returned
    /\ \E i, k \in Users :
          /\ utask[i].resp = "http_error"
          /\ utask[k].resp = "ok" /\ Returns(k) # {}
          /\ \E t \in Returns(k) : Wrote(t)

\* C8: the list _process_user_replays returned holds exactly one entry for
\* each of the user's replay tasks that fetched, decoded and persisted, and
\* none for a task that failed; the count logged for the user is the number
\* of its replay tasks whose write succeeded.
C8_ResultAggregation ==
    \A i \in Users : utask[i].pc = "done" =>
        /\ Returns(i) = {t \in TasksOf(i) : rtask[t].resp = "ok"
                                            /\ rtask[t].write = "ok"}
        /\ Cardinality(Returns(i)) = Len(utask[i].replays)
        /\ logged[i] # -1 =>
              logged[i] = Cardinality({t \in TasksOf(i) : rtask[t].write = "ok"})

\* A user with two replay tasks, one persisted and one failed, logged as 1.
C8_Witness ==
    \E i \in Users :
        /\ logged[i] = 1
        /\ Cardinality(TasksOf(i)) = 2
        /\ \E t \in TasksOf(i) : rtask[t].ret = "None"

\* C9: after a successful ladder fetch the bar has advanced once for each
\* user future yielded, each of them completed; progress <= completed user
\* tasks <= ladder entries, and on return progress is the number of ladder
\* entries.
Completed == {i \in 1..Len(toplist) : utask[i].pc \in {"done", "raised"}}

C9_ProgressAccounting ==
    ladder_resp = "ok" =>
        /\ progress = Cardinality(collected)
        /\ collected \subseteq Completed
        /\ progress <= Cardinality(Completed)
        /\ Cardinality(Completed) <= Len(toplist)
        /\ Returned => progress = Len(toplist)

\* The run returned with the bar at 2, one user having failed and one having
\* returned replays.
C9_Witness ==
    /\ pc = "returned" /\ progress = 2
    /\ \E i, k \in Users :
          Failed(utask[i].resp) /\ Len(utask[k].replays) > 0

\* C10: download_ladder_replays has returned after a successful ladder
\* fetch only when every submitted user task and every replay task has
\* completed: no GET is in flight, no thread is in or waiting for the write
\* section.
C10_CompletionBarrier ==
    Returned /\ ladder_resp = "ok" =>
        /\ \A i \in 1..Len(toplist) : utask[i].pc = "done"
        /\ \A i \in Users : utask[i].pc \in {"none", "done"}
        /\ \A t \in Tasks : rtask[t].pc \in {"none", "done"}
        /\ file_lock = NoTask

\* The run returned after two users' replay tasks wrote files.
C10_Witness ==
    /\ pc = "returned" /\ ladder_resp = "ok"
    /\ \E t, u \in Writers : t[1] # u[1]

\* C11: under fair scheduling and requests that return, every submitted
\* user task and replay task completes and download_ladder_replays returns,
\* for every ladder, replay list and max_workers; no thread waits forever
\* for a pool worker or for the file lock.
AllTasksCompleted ==
    /\ \A i \in Users : utask[i].pc \in {"none", "done"}
    /\ \A i \in 1..Len(toplist) : ladder_resp = "ok" => utask[i].pc = "done"
    /\ \A t \in Tasks : rtask[t].pc \in {"none", "done"}
    /\ file_lock = NoTask

C11_Termination == <>(pc = "exited" /\ AllTasksCompleted)

\* The run ended with one worker per pool, two users with two replays each
\* fetched, and a write that failed inside the lock.
C11_Witness ==
    /\ pc = "exited" /\ max_workers = 1
    /\ \A i \in Users : Cardinality(TasksOf(i)) = 2
    /\ \E t \in Tasks : rtask[t].write \in {"open_fail", "dump_fail"}
    /\ \E t \in Tasks : rtask[t].write = "ok"

\* C14: at most one worker thread, over all users' inner pools, is inside
\* the open-and-dump section, and it is the holder of file_lock.
Writing == {t \in Tasks : rtask[t].pc = "writing"}

C14_SerializedWrites ==
    /\ Cardinality(Writing) <= 1
    /\ \A t \in Writing : file_lock = t
    /\ Writing = {} => file_lock = NoTask

\* A worker of one user is writing while a worker of the other user waits
\* for the lock.
C14_Witness ==
    \E t, u \in Tasks :
        /\ t[1] # u[1]
        /\ rtask[t].pc = "writing" /\ rtask[u].pc = "lock_wait"

\* C15: no GET is issued twice for a task; when the run has returned, one
\* ladder GET was issued, after a successful ladder fetch one list GET per
\* ladder entry, and for every user whose list fetch succeeded one replay
\* GET per entry of the list, failed or not.
C15_NoRetry ==
    /\ reqs.ladder <= 1
    /\ \A i \in Users : reqs.list[i] <= 1
    /\ \A t \in Tasks : reqs.replay[t] <= 1
    /\ Returned =>
          /\ reqs.ladder = 1
          /\ \A i \in Users :
                reqs.list[i] =
                    IF ladder_resp = "ok" /\ i <= Len(toplist) THEN 1 ELSE 0
          /\ \A t \in Tasks :
                reqs.replay[t] =
                    IF utask[t[1]].resp = "ok" /\ t[2] <= Len(utask[t[1]].user_dict)
                    THEN 1 ELSE 0

\* The run returned after a replay GET failed and a list GET failed, each
\* issued once.
C15_Witness ==
    /\ Returned
    /\ \E t \in Tasks : Failed(rtask[t].resp) /\ reqs.replay[t] = 1
    /\ \E i \in Users : Failed(utask[i].resp) /\ reqs.list[i] = 1

\* C16: at most max_workers user tasks run at once, at most max_workers
\* replay tasks of one user run at once, and at most max_workers squared
\* replay GETs are in flight.
InFlight == {t \in Tasks : rtask[t].pc = "get_wait"}

C16_BoundedParallelism ==
    /\ Cardinality(UserRunning) <= max_workers
    /\ \A i \in Users : Cardinality(ReplayRunning(i)) <= max_workers
    /\ Cardinality(InFlight) <= max_workers * max_workers

\* With one worker per pool: a user task and a replay task wait in their
\* queues while another of each runs.
C16_Witness ==
    /\ max_workers = 1
    /\ \E i, k \in Users :
          /\ utask[i].pc = "collecting" /\ utask[k].pc = "pending"
          /\ \E t, u \in TasksOf(i) :
                rtask[t].pc = "get_wait" /\ rtask[u].pc = "pending"

\* C17: no GET (ladder, replay list or replay) has been issued in a state
\* where info or info/all does not exist.
RequestIssued ==
    \/ reqs.ladder > 0
    \/ \E i \in Users : reqs.list[i] > 0
    \/ \E t \in Tasks : reqs.replay[t] > 0

C17_DirsBeforeFetches == RequestIssued => {"info", "info/all"} \subseteq dirs

\* The ladder GET is in flight, both directories exist.
C17_Witness ==
    pc = "ladder_wait" /\ reqs.ladder = 1 /\ dirs = {"info", "info/all"}

\* C18: a user's replays list changes only in a step of the thread running
\* that user's _process_user_replays, by one appended entry; the progress
\* counter changes only in a step of the main thread, by one.
C18_SingleWriter ==
    [][ /\ \A i \in Users :
              utask'[i].replays # utask[i].replays =>
                  /\ \E j \in Slots : _process_user_replays_collect(i, j)
                  /\ Len(utask'[i].replays) = Len(utask[i].replays) + 1
                  /\ SubSeq(utask'[i].replays, 1, Len(utask[i].replays))
                        = utask[i].replays
        /\ progress' # progress =>
              /\ \E i \in Users : LadderCollect(i)
              /\ progress' = progress + 1 ]_vars

\* Both users have appended a record while the main thread has advanced the
\* bar for one of them and the other is still collecting.
C18_Witness ==
    /\ progress = 1
    /\ \A i \in Users : Len(utask[i].replays) >= 1
    /\ \E i \in Users : utask[i].pc = "collecting"

\* C12: poke['p1'] is the sequence of descriptors of the log's poke events
\* with slot p1, in log order with duplicates kept, likewise poke['p2'];
\* events with another slot add to neither, and the roster has no key but
\* p1 and p2.  The poke events of a log are the matches of the poke pattern.
PokeEvents(log) == re_finditer(log, 1)
Roster(log, slot) ==
    LET own == SelectSeq(PokeEvents(log), LAMBDA m : m.player = <<slot>>)
    IN  [k \in 1..Len(own) |-> strip(own[k].pokemon)]

C12_RosterExtraction ==
    ps.pc = "parsed" =>
        /\ DOMAIN ps.parsed.poke = {<<"p1">>, <<"p2">>}
        /\ ps.parsed.poke[<<"p1">>] = Roster(ps.log, "p1")
        /\ ps.parsed.poke[<<"p2">>] = Roster(ps.log, "p2")
        /\ Len(ps.parsed.poke[<<"p1">>]) + Len(ps.parsed.poke[<<"p2">>])
              <= Len(PokeEvents(ps.log))

\* A parsed log with events p1:A, p2:"A, B", p3:B, p1:B in some order: two
\* entries for p1, one for p2, the p3 event in neither.
C12_Witness ==
    /\ ps.pc = "parsed"
    /\ Len(PokeEvents(ps.log)) = 4
    /\ \E k \in 1..4 : PokeEvents(ps.log)[k].player = <<"p3">>
    /\ ps.parsed.poke[<<"p1">>] = <<<<"A">>, <<"B">>>>
    /\ ps.parsed.poke[<<"p2">>] = <<<<"A", ",", " ", "B">>>>

\* C13: gen, tier and winner each are the value of the first occurrence of
\* their pattern in log order, or None when the log has no occurrence.
Occurrences(log, key, c) ==
    {k \in 1..Len(log) : match_scalar(log, k, key, c) # NoMatch}
First(S) == CHOOSE k \in S : \A j \in S : k <= j
Last(S) == CHOOSE k \in S : \A j \in S : k >= j

C13_FirstMatch ==
    ps.pc = "parsed" =>
        LET g == Occurrences(ps.log, "gen", GenClass)
            t == Occurrences(ps.log, "tier", TierClass)
            w == Occurrences(ps.log, "win", WinClass)
        IN  /\ ps.parsed.gen =
                  IF g = {} THEN "None"
                  ELSE int(match_scalar(ps.log, First(g), "gen", GenClass).group)
            /\ ps.parsed.tier =
                  IF t = {} THEN "None"
                  ELSE strip(match_scalar(ps.log, First(t), "tier", TierClass).group)
            /\ ps.parsed.winner =
                  IF w = {} THEN "None"
                  ELSE strip(match_scalar(ps.log, First(w), "win", WinClass).group)

\* A parsed log with two gen occurrences of different values, gen being the
\* first one's, and no tier occurrence.
C13_Witness ==
    /\ ps.pc = "parsed"
    /\ LET g == Occurrences(ps.log, "gen", GenClass)
       IN  /\ Cardinality(g) = 2
           /\ int(match_scalar(ps.log, Last(g), "gen", GenClass).group) = 87
           /\ ps.parsed.gen = 7
    /\ ps.parsed.tier = "None"

\* C19: in the sequential ladder loop, an iteration whose list GET
\* returned non-200 fetches no replay and writes no file, and the loop goes
\* on to the next entry instead of ending there.
C19_SeqUserSkip ==
    \A n \in 1..Len(sq.iters) :
        sq.iters[n].resp = "http_error" =>
            /\ sq.iters[n].fetched = <<>>
            /\ sq.iters[n].written = <<>>
            /\ ~(sq.pc = "crashed" /\ sq.i = n)

\* C20: in the sequential path a replay GET that returned non-200 writes no
\* file and does not end the batch.
C20_SeqReplaySkip ==
    \A n \in 1..Len(sq.iters) : \A k \in 1..Len(sq.iters[n].fetched) :
        sq.iters[n].fetched[k].resp = "http_error" =>
            /\ Len(sq.iters[n].written) <= Len(sq.iters[n].fetched) - 1
            /\ sq.pc # "crashed"

=============================================================================
